---- MODULE Spec2Model ----
(***************************************************************************)
(* Model of the Sophos dashboard data pipeline:                            *)
(*   src/src/lib/sophos-api.ts  (credential load, token exchange,          *)
(*                               inventory fetch + normalization,          *)
(*                               getSophosEndpointData)                    *)
(*   src/src/app/page.tsx       (SophosDashboard: fetchData, clearCache,   *)
(*                               React state, the three screens)           *)
(*                                                                         *)
(* JavaScript values are encoded as follows.                               *)
(*   - a raw (vendor) record is a TLA+ record whose DOMAIN holds exactly   *)
(*     the fields that are present; a missing field reads as undefined;    *)
(*   - "object or null" values are sequences: <<>> is null, <<v>> is v;    *)
(*   - undefined / null strings are the sentinels Undefined and Null;      *)
(*   - a promise outcome is [kind |-> "resolve", ...] or                   *)
(*     [kind |-> "reject"]; the outcome of a call is                       *)
(*     [threw |-> BOOLEAN, ...].                                           *)
(***************************************************************************)
EXTENDS Integers, Sequences, FiniteSets, Bags, TLC

(* ------------------------------ bounds --------------------------------- *)

\* Longest raw batch the inventory fetch answers with.
MaxBatch == 2

\* Number of fetchData invocations started in one behaviour.
MaxCycles == 3

\* Longest address list a raw IP field holds.
MaxIpLen == 1

\* Number of times the map callback is run over one raw record.
MaxPasses == 2

\* Number of direct calls of the exported wrappers in one behaviour.
MaxLibCalls == 2

(* --------------------------- JavaScript values -------------------------- *)

Undefined == "<undefined>"

Null == "<null>"

\* A raw batch element that is null: reading a property of it is a TypeError.
NullItem == [jsNull |-> TRUE]

IsNullItem(item) == "jsNull" \in DOMAIN item

\* item.f as a string, undefined when the field is absent.
GetStr(item, f) == IF f \in DOMAIN item THEN item[f] ELSE Undefined

\* A string is truthy unless it is undefined, null or empty.
Truthy(s) == s \notin {Undefined, Null, ""}

\* item.f || d for a string field.
OrDefault(item, f, d) == IF Truthy(GetStr(item, f)) THEN GetStr(item, f) ELSE d

\* item.f?.g || d for a nested string field.
NestedOrDefault(item, f, g, d) ==
  IF f \in DOMAIN item THEN OrDefault(item[f], g, d) ELSE d

\* item.f?.g for a nested optional string field.
NestedGet(item, f, g) ==
  IF f \in DOMAIN item THEN GetStr(item[f], g) ELSE Undefined

\* item.f && Array.isArray(item.f) ? item.f : []
\* A raw list field is [isArray |-> BOOLEAN, items |-> sequence].
ArrayOrEmpty(item, f) ==
  IF f \in DOMAIN item /\ item[f].isArray THEN item[f].items ELSE <<>>

\* item.f && Array.isArray(item.f) && item.f.length > 0
NonEmptyArray(item, f) ==
  f \in DOMAIN item /\ item[f].isArray /\ Len(item[f].items) > 0

(* ------------------------- canonical endpoints ------------------------- *)

Endpoint(id, hostname, osName, osVersion, type, online, health, group, ips, lastSeen) ==
  [ id          |-> id,
    hostname    |-> hostname,
    os          |-> [name |-> osName, version |-> osVersion],
    type        |-> type,
    online      |-> online,
    health      |-> [overall |-> health],
    group       |-> [name |-> group],
    ipAddresses |-> ips,
    lastSeen    |-> lastSeen ]

mockEndpoints ==
  << Endpoint("1", "DESKTOP-ABC123", "Windows 11", "22H2", "computer", TRUE,
              "good", "IT Department", <<"192.168.1.100">>, "2024-01-15T10:30:00Z"),
     Endpoint("2", "LAPTOP-XYZ789", "Windows 10", "21H2", "computer", FALSE,
              "warning", "Sales Team", <<"192.168.1.101">>, "2024-01-14T16:45:00Z"),
     Endpoint("3", "MACBOOK-PRO-001", "macOS", "14.2", "computer", TRUE,
              "good", "Design Team", <<"192.168.1.102">>, "2024-01-15T11:00:00Z"),
     Endpoint("4", "SERVER-PROD-01", "Windows Server 2022", Undefined, "server", TRUE,
              "critical", "Production Servers", <<"192.168.1.50">>, "2024-01-15T11:15:00Z"),
     Endpoint("5", "UBUNTU-DEV-01", "Ubuntu", "22.04", "server", TRUE,
              "good", "Development", <<"192.168.1.51">>, "2024-01-15T11:20:00Z"),
     Endpoint("6", "WORKSTATION-DESIGN", "Windows 11", "23H2", "computer", TRUE,
              "good", "Design Team", <<"192.168.1.103">>, "2024-01-15T11:25:00Z"),
     Endpoint("7", "LAPTOP-SALES-01", "Windows 10", "22H2", "computer", FALSE,
              "warning", "Sales Team", <<"192.168.1.104">>, "2024-01-13T14:20:00Z"),
     Endpoint("8", "SERVER-DB-01", "Windows Server 2019", Undefined, "server", TRUE,
              "good", "Production Servers", <<"192.168.1.52">>, "2024-01-15T11:30:00Z"),
     Endpoint("9", "LAPTOP-HR-01", "Windows 11", "23H2", "computer", TRUE,
              "good", "HR Department", <<"192.168.1.105">>, "2024-01-15T11:35:00Z"),
     Endpoint("10", "IPHONE-SALES-02", "iOS", "17.2", "mobile", TRUE,
              "good", "Sales Team", <<"192.168.1.106">>, "2024-01-15T11:40:00Z") >>

(* ---------------------------- normalization ---------------------------- *)

\* Variant: the snake_case combined field is tried before the camelCase one.
ResolveIpAddresses_SnakeFirst(item) ==
  IF NonEmptyArray(item, "ip_addresses") THEN item.ip_addresses.items
  ELSE IF NonEmptyArray(item, "ipAddresses") THEN item.ipAddresses.items
  ELSE ArrayOrEmpty(item, "ipv4Addresses") \o ArrayOrEmpty(item, "ipv6Addresses")
       \o ArrayOrEmpty(item, "ipv4_addresses") \o ArrayOrEmpty(item, "ipv6_addresses")

\* The IP address reconciliation of the map callback.
ResolveIpAddresses(item) ==
  IF NonEmptyArray(item, "ipAddresses") THEN item.ipAddresses.items
  ELSE IF NonEmptyArray(item, "ip_addresses") THEN item.ip_addresses.items
  ELSE ArrayOrEmpty(item, "ipv4Addresses") \o ArrayOrEmpty(item, "ipv6Addresses")
       \o ArrayOrEmpty(item, "ipv4_addresses") \o ArrayOrEmpty(item, "ipv6_addresses")

\* item.online || false
OnlineOrFalse(item) == IF "online" \in DOMAIN item THEN item.online ELSE FALSE

\* Variant: the type is read from the field named type.
NormalizeEndpoint_ReadsType(item) ==
  Endpoint(GetStr(item, "id"),
           OrDefault(item, "hostname", "Unknown"),
           NestedOrDefault(item, "os", "name", "Unknown OS"),
           NestedGet(item, "os", "version"),
           OrDefault(item, "type", "computer"),
           OnlineOrFalse(item),
           NestedOrDefault(item, "health", "overall", "unknown"),
           NestedOrDefault(item, "group", "name", "No Group"),
           ResolveIpAddresses(item),
           GetStr(item, "last_seen"))

\* The object literal returned by the map callback for one raw record.
NormalizeEndpoint(item) ==
  Endpoint(GetStr(item, "id"),
           OrDefault(item, "hostname", "Unknown"),
           NestedOrDefault(item, "os", "name", "Unknown OS"),
           NestedGet(item, "os", "version"),
           OrDefault(item, "endpoint_type", "computer"),
           OnlineOrFalse(item),
           NestedOrDefault(item, "health", "overall", "unknown"),
           NestedOrDefault(item, "group", "name", "No Group"),
           ResolveIpAddresses(item),
           GetStr(item, "last_seen"))

\* Variant: the callback takes the split IPv4 list out of the raw record.
NormalizeStep_Consuming(item) ==
  [ raw      |-> [f \in DOMAIN item \ {"ipv4Addresses"} |-> item[f]],
    endpoint |-> NormalizeEndpoint(item) ]

\* One run of the map callback over a raw record: the record as the
\* callback leaves it (it only reads item) and the object it returns.
NormalizeStep(item) == [raw |-> item, endpoint |-> NormalizeEndpoint(item)]

\* rawEndpoints.map(...)
MapEndpoints(raw) == [i \in 1..Len(raw) |-> NormalizeEndpoint(raw[i])]

(* ------------------------- external invocations ------------------------ *)

\* The credentials object answered by load_sophos_credentials.
Credentials ==
  [client_id |-> "id", client_secret |-> "secret", tenant_id |-> "tenant", region |-> "us01"]

\* Placeholder for an invocation that has not been answered yet.
Pending == [kind |-> "pending"]

\* invoke('load_sophos_credentials'): a credentials object, null, or a rejection.
\* Without stored credentials the invocation never answers with credentials.
CredentialOutcomes(stored) ==
  { [kind |-> "resolve", value |-> <<>>], [kind |-> "reject"] }
  \cup (IF stored THEN { [kind |-> "resolve", value |-> <<Credentials>>] } ELSE {})

\* invoke('get_sophos_access_token'): a token, no token, or a rejection.
TokenOutcomes ==
  { [kind |-> "resolve", value |-> "token"],
    [kind |-> "resolve", value |-> Null],
    [kind |-> "reject"] }

\* Raw vendor records the inventory may contain.
RawEndpointSet ==
  { [id |-> "a", online |-> TRUE], [id |-> "b", online |-> TRUE],
    [ id |-> "a", hostname |-> "host-a", os |-> [name |-> "Linux", version |-> "6.1"],
           endpoint_type |-> "server", online |-> FALSE,
           health |-> [overall |-> "warning"], group |-> [name |-> "Sales Team"],
           ipv4Addresses |-> [isArray |-> TRUE, items |-> <<"10.0.0.1">>],
           ipv6Addresses |-> [isArray |-> TRUE, items |-> <<"::1">>],
           last_seen |-> "2024-01-15T10:30:00Z" ],
    [ tenant |-> "t" ] }

RECURSIVE SeqsUpTo(_, _)
\* All sequences over S of length at most n.
SeqsUpTo(S, n) ==
  IF n = 0 THEN { <<>> }
  ELSE LET shorter == SeqsUpTo(S, n - 1)
       IN  shorter \cup { Append(q, x) : q \in shorter, x \in S }

\* invoke('fetch_sophos_endpoints'): an array of raw records, an array that
\* holds a null, a non-array value (null), or a rejection.
FetchOutcomes ==
  { [kind |-> "resolve", value |-> [isArray |-> TRUE, items |-> b]] :
      b \in SeqsUpTo(RawEndpointSet, MaxBatch) }
  \cup { [kind |-> "resolve",
          value |-> [isArray |-> TRUE, items |-> <<[id |-> "a", online |-> TRUE], NullItem>>]],
         [kind |-> "resolve", value |-> [isArray |-> FALSE, items |-> <<>>]],
         [kind |-> "reject"] }

\* What invoke rejects with: a plain string, not an Error instance.
RejectValue == [isError |-> FALSE, message |-> "invoke rejected"]

\* The TypeError raised by reading a property of null or undefined.
TypeError == [isError |-> TRUE, message |-> "Cannot read properties of null"]

NoError == [isError |-> FALSE, message |-> Undefined]

(* ------------------------------ sophos-api ----------------------------- *)

\* Variant: no try/catch around the invocation, a rejection is thrown on.
loadSophosCredentials_NoCatch(out) ==
  IF out.kind = "resolve"
  THEN [threw |-> FALSE, value |-> out.value, error |-> NoError]
  ELSE [threw |-> TRUE, value |-> <<>>, error |-> RejectValue]

loadSophosCredentials(out) ==
  IF out.kind = "resolve"
  THEN [threw |-> FALSE, value |-> out.value, error |-> NoError]
  ELSE [threw |-> FALSE, value |-> <<>>, error |-> NoError]

getSophosAccessToken(out) ==
  IF out.kind = "resolve"
  THEN [threw |-> FALSE, value |-> out.value, error |-> NoError]
  ELSE [threw |-> FALSE, value |-> Null, error |-> NoError]

\* invoke('save_sophos_credentials', { credentials }): a confirmation text or
\* a rejection.
SaveOutcomes == { [kind |-> "resolve", value |-> "Credentials saved"], [kind |-> "reject"] }

\* invoke('clear_cache'): a confirmation text or a rejection.
ClearOutcomes == { [kind |-> "resolve", value |-> "Cache cleared"], [kind |-> "reject"] }

\* Variant: the rejection of the save is passed on to the caller.
saveSophosCredentials_Rethrow(out) ==
  IF out.kind = "resolve"
  THEN [threw |-> FALSE, value |-> TRUE, error |-> NoError]
  ELSE [threw |-> TRUE, value |-> Undefined, error |-> RejectValue]

\* saveSophosCredentials: true after the awaited save, false from the catch.
saveSophosCredentials(out) ==
  IF out.kind = "resolve"
  THEN [threw |-> FALSE, value |-> TRUE, error |-> NoError]
  ELSE [threw |-> FALSE, value |-> FALSE, error |-> NoError]

\* Variant: no catch block around the external clear.
clearSophosCache_NoCatch(out) ==
  IF out.kind = "resolve"
  THEN [ threw |-> FALSE, value |-> TRUE, error |-> NoError,
         invoked |-> << [cmd |-> "clear_cache", args |-> <<>>] >> ]
  ELSE [ threw |-> TRUE, value |-> Undefined, error |-> RejectValue,
         invoked |-> << [cmd |-> "clear_cache", args |-> <<>>] >> ]

\* clearSophosCache: one invoke('clear_cache') without arguments; true after
\* it resolved, false from the catch.
clearSophosCache(out) ==
  IF out.kind = "resolve"
  THEN [ threw |-> FALSE, value |-> TRUE, error |-> NoError,
         invoked |-> << [cmd |-> "clear_cache", args |-> <<>>] >> ]
  ELSE [ threw |-> FALSE, value |-> FALSE, error |-> NoError,
         invoked |-> << [cmd |-> "clear_cache", args |-> <<>>] >> ]

\* Variant: the failure is swallowed into an empty list, as the other
\* wrappers swallow theirs into null.
fetchSophosEndpoints_Swallow(out) ==
  IF out.kind = "resolve" /\ out.value.isArray
     /\ \A i \in 1..Len(out.value.items) : ~IsNullItem(out.value.items[i])
  THEN [threw |-> FALSE, value |-> MapEndpoints(out.value.items), error |-> NoError]
  ELSE [threw |-> FALSE, value |-> <<>>, error |-> NoError]

fetchSophosEndpoints(out) ==
  IF out.kind # "resolve"
  THEN [threw |-> TRUE, value |-> <<>>, error |-> RejectValue]
  ELSE IF ~out.value.isArray
  THEN [threw |-> TRUE, value |-> <<>>, error |-> TypeError]
  ELSE IF \E i \in 1..Len(out.value.items) : IsNullItem(out.value.items[i])
  THEN [threw |-> TRUE, value |-> <<>>, error |-> TypeError]
  ELSE [threw |-> FALSE, value |-> MapEndpoints(out.value.items), error |-> NoError]

\* The two places that return the mock set with success: true.
MockResult ==
  [success |-> TRUE, data |-> mockEndpoints, source |-> "mock", error |-> Undefined]

\* Variant: the catch block rethrows after logging.
FallbackResult_Rethrow(e) ==
  [ threw  |-> TRUE,
    result |-> [ success |-> FALSE, data |-> mockEndpoints, source |-> "mock",
                 error   |-> e.message ] ]

\* The catch block of getSophosEndpointData.
FallbackResult(e) ==
  [ threw  |-> FALSE,
    result |-> [ success |-> FALSE, data |-> mockEndpoints, source |-> "mock",
                 error   |-> IF e.isError THEN e.message
                             ELSE "Unknown error occurred while fetching from Sophos API" ] ]

\* Variant: the force-mock branch reports the fallback shape.
ForcedMockResult_AsFallback ==
  [ threw  |-> FALSE,
    result |-> [ success |-> FALSE, data |-> mockEndpoints, source |-> "mock",
                 error   |-> "forced" ] ]

\* The return of the force-mock branch.
ForcedMockResult == [threw |-> FALSE, result |-> MockResult]

\* Variant: missing credentials are reported like a failure.
NoCredentialsResult_AsFailure ==
  [ threw  |-> FALSE,
    result |-> [ success |-> FALSE, data |-> mockEndpoints, source |-> "mock",
                 error   |-> "No Sophos API credentials found" ] ]

\* The return of the branch taken when no credentials are found.
NoCredentialsResult == [threw |-> FALSE, result |-> MockResult]

\* Variant: a failed fetch is reported as an api result without data.
FetchRealData_ApiFailure(fetchOut) ==
  LET endpoints == fetchSophosEndpoints(fetchOut)
  IN  IF endpoints.threw
      THEN [ threw  |-> FALSE,
             result |-> [ success |-> FALSE, data |-> <<>>, source |-> "api",
                          error |-> "Unknown error occurred while fetching from Sophos API" ] ]
      ELSE [ threw  |-> FALSE,
             result |-> [ success |-> TRUE, data |-> endpoints.value,
                          source |-> "api", error |-> Undefined ] ]

\* The try block after the access token was obtained.
FetchRealData(fetchOut) ==
  LET endpoints == fetchSophosEndpoints(fetchOut)
  IN  IF endpoints.threw THEN FallbackResult(endpoints.error)
      ELSE [ threw  |-> FALSE,
             result |-> [ success |-> TRUE, data |-> endpoints.value,
                          source |-> "api", error |-> Undefined ] ]

\* Variant: the fetch is requested whatever the token exchange answered.
getSophosEndpointData_NoTokenCheck(forceMock, credOut, tokenOut, fetchOut) ==
  IF forceMock
  THEN [steps |-> <<>>] @@ ForcedMockResult
  ELSE
    LET credentials == loadSophosCredentials(credOut)
    IN  IF credentials.threw
        THEN [steps |-> <<"load">>] @@ FallbackResult(credentials.error)
        ELSE IF credentials.value = <<>>
        THEN [steps |-> <<"load">>] @@ NoCredentialsResult
        ELSE [steps |-> <<"load", "token", "fetch">>] @@ FetchRealData(fetchOut)

\* getSophosEndpointData, given the force-mock flag and the outcomes of the
\* three invocations.  steps lists the invocations that were consulted; an
\* outcome that is not consulted is never read.
getSophosEndpointData(forceMock, credOut, tokenOut, fetchOut) ==
  IF forceMock
  THEN [steps |-> <<>>] @@ ForcedMockResult
  ELSE
    LET credentials == loadSophosCredentials(credOut)
    IN  IF credentials.threw
        THEN [steps |-> <<"load">>] @@ FallbackResult(credentials.error)
        ELSE IF credentials.value = <<>>
        THEN [steps |-> <<"load">>] @@ NoCredentialsResult
        ELSE
          LET accessToken == getSophosAccessToken(tokenOut)
          IN  IF accessToken.threw
              THEN [steps |-> <<"load", "token">>] @@ FallbackResult(accessToken.error)
              ELSE IF ~Truthy(accessToken.value)
              THEN [steps |-> <<"load", "token">>]
                   @@ FallbackResult([isError |-> TRUE,
                        message |-> "Failed to obtain access token from Sophos Central"])
              ELSE [steps |-> <<"load", "token", "fetch">>] @@ FetchRealData(fetchOut)

(* -------------------------------- state -------------------------------- *)

VARIABLES
  forceMockData,  \* process.env.NEXT_PUBLIC_USE_MOCK_DATA === 'true'
  credentialsStored, \* the secrets file holds credentials
  endpoints,      \* useState<Endpoint[]>([])
  stats,          \* useState<DashboardStats | null>(null): <<>> is null
  loading,        \* useState(true)
  error,          \* useState<string | null>(null)
  searchTerm,     \* useState('')
  statusFilter,   \* useState<'all' | 'online' | 'offline'>('all')
  healthFilter,   \* useState<'all' | 'good' | 'warning' | 'critical'>('all')
  osFilter,       \* useState<string>('all')
  typeFilter,     \* useState<string>('all')
  groupFilter,    \* useState<string>('all')
  clearedFilters, \* history: the last click was Clear Search & Filters
  lastUpdated,    \* useState<Date | null>(null): 0 is null
  dataSource,     \* useState<'api' | 'mock'>('mock')
  isClearing,     \* useState(false)
  mounted,        \* the mount effect has run
  clearPending,   \* clearCache awaits invoke('clear_cache')
  clearAnswer,    \* history: how the last invoke('clear_cache') of clearCache ended
  cycles,         \* bag of the fetchData invocations awaiting an invocation
  started,        \* number of fetchData invocations started so far
  time,           \* clock read by new Date()
  lastCycle,      \* history: the fetchData invocation that finished last
  libRaw0,        \* a raw record as the inventory answered it
  libRaw,         \* the same record after the map callback ran over it
  libOuts,        \* what the map callback returned for it, pass by pass
  libLog          \* the direct calls of the exported wrappers, with their outcome

\* The search box and the five filters.
filterVars ==
  << searchTerm, statusFilter, healthFilter, osFilter, typeFilter, groupFilter, clearedFilters >>

\* The variables of the dashboard and of its environment.
dashVars == << forceMockData, credentialsStored, endpoints, stats, loading, error, lastUpdated,
               dataSource, isClearing, mounted, clearPending, clearAnswer, cycles, started,
               time, lastCycle, filterVars >>

\* The variables of the wrapper and normalization harness.
libVars == << libRaw0, libRaw, libOuts, libLog >>

vars == << forceMockData, credentialsStored, endpoints, stats, loading, error, lastUpdated, dataSource,
           isClearing, mounted, clearPending, clearAnswer, cycles, started, time, lastCycle,
           filterVars, libVars >>

(* -------------------------------- page --------------------------------- *)

\* Variant: the list is stored as fetched.
uniqueEndpoints_NoDedup(data) == data

RECURSIVE uniqueEndpoints_LastWins(_)
\* Variant: a later record replaces the kept record with the same id.
uniqueEndpoints_LastWins(data) ==
  IF Len(data) = 0 THEN <<>>
  ELSE LET acc      == uniqueEndpoints_LastWins(SubSeq(data, 1, Len(data) - 1))
           endpoint == data[Len(data)]
       IN  IF \E i \in 1..Len(acc) : acc[i].id = endpoint.id
           THEN [ i \in 1..Len(acc) |-> IF acc[i].id = endpoint.id THEN endpoint ELSE acc[i] ]
           ELSE Append(acc, endpoint)

RECURSIVE uniqueEndpoints(_)
\* result.data.reduce(...): keep a record unless an earlier kept one has its id.
uniqueEndpoints(data) ==
  IF Len(data) = 0 THEN <<>>
  ELSE LET acc      == uniqueEndpoints(SubSeq(data, 1, Len(data) - 1))
           endpoint == data[Len(data)]
       IN  IF \E i \in 1..Len(acc) : acc[i].id = endpoint.id
           THEN acc
           ELSE Append(acc, endpoint)

\* loadedEndpoints.filter(e => e.online).length
CountOnline(list) == Cardinality({ i \in 1..Len(list) : list[i].online })

\* One bucket of the healthCounts reduce.
CountHealth(list, health) ==
  Cardinality({ i \in 1..Len(list) : list[i].health.overall = health })

\* Variant: the reduce records the presence of a key, acc[key] = 1.
FrequencyTable_Presence(keys) == [ k \in { keys[i] : i \in 1..Len(keys) } |-> 1 ]

\* A reduce into a Record<string, number>: acc[key] = (acc[key] || 0) + 1
\* over the keys of the endpoints, given in list order.
FrequencyTable(keys) ==
  [ k \in { keys[i] : i \in 1..Len(keys) } |->
      Cardinality({ i \in 1..Len(keys) : keys[i] = k }) ]

\* Variant: the subtraction is off by one.
OfflineCount_OffByOne(totalEndpoints, onlineEndpoints) ==
  IF totalEndpoints = 0 THEN 0 ELSE totalEndpoints - onlineEndpoints - 1

\* offlineEndpoints = totalEndpoints - onlineEndpoints
OfflineCount(totalEndpoints, onlineEndpoints) == totalEndpoints - onlineEndpoints

\* The statistics fetchData computes from a list of endpoints.
CalculateStats(list) ==
  LET totalEndpoints  == Len(list)
      onlineEndpoints == CountOnline(list)
  IN  [ totalEndpoints    |-> totalEndpoints,
        onlineEndpoints   |-> onlineEndpoints,
        offlineEndpoints  |-> OfflineCount(totalEndpoints, onlineEndpoints),
        healthyEndpoints  |-> CountHealth(list, "good"),
        warningEndpoints  |-> CountHealth(list, "warning"),
        criticalEndpoints |-> CountHealth(list, "critical"),
        osCounts          |-> FrequencyTable([i \in 1..Len(list) |-> list[i].os.name]),
        typeCounts        |-> FrequencyTable([i \in 1..Len(list) |-> list[i].type]),
        groupCounts       |-> FrequencyTable([i \in 1..Len(list) |-> list[i].group.name]) ]

\* Variant: the statistics are taken over the list held so far and the new
\* data together.
loadedEndpoints_Accumulated(result) == endpoints \o result.data

\* The list fetchData hands to the statistics calculation.
loadedEndpoints(result) == result.data

FetchErrorText == "Failed to fetch endpoint data"

\* Which of the three screens the component renders.
Screen ==
  IF loading THEN "loading"
  ELSE IF error # Null THEN "error"
  ELSE "main"

\* No record under normalization, no wrapper called.
LibIdle ==
  /\ libRaw0 = [tenant |-> "t"]
  /\ libRaw = libRaw0
  /\ libOuts = <<>>
  /\ libLog = <<>>

NoCycle ==
  [ threw |-> FALSE, steps |-> <<>>,
    result |-> [success |-> FALSE, data |-> <<>>, source |-> "none", error |-> Undefined],
    cred |-> Pending, token |-> Pending, fetched |-> Pending ]

\* The component state after construction, before the mount effect.
FreshDashboard ==
  /\ forceMockData \in BOOLEAN
  /\ credentialsStored \in BOOLEAN
  /\ endpoints = <<>>
  /\ stats = <<>>
  /\ loading = TRUE
  /\ error = Null
  /\ lastUpdated = 0
  /\ dataSource = "mock"
  /\ isClearing = FALSE
  /\ mounted = FALSE
  /\ clearPending = FALSE
  /\ clearAnswer = "none"
  /\ searchTerm = ""
  /\ statusFilter = "all"
  /\ healthFilter = "all"
  /\ osFilter = "all"
  /\ typeFilter = "all"
  /\ groupFilter = "all"
  /\ clearedFilters = FALSE
  /\ cycles = EmptyBag
  /\ started = 0
  /\ time = 0
  /\ lastCycle = NoCycle

Init == FreshDashboard /\ LibIdle

\* Variant: the success branch does not call setDataSource.
FetchDataSettle_StaleSource(cyc, out, errorNow, answers) ==
  /\ IF ~out.threw /\ out.result.success
     THEN /\ endpoints' = uniqueEndpoints(out.result.data)
          /\ lastUpdated' = time + 1
          /\ stats' = << CalculateStats(loadedEndpoints(out.result)) >>
          /\ error' = errorNow
          /\ UNCHANGED dataSource
     ELSE /\ error' = FetchErrorText
          /\ UNCHANGED << endpoints, lastUpdated, dataSource, stats >>
  /\ loading' = FALSE
  /\ time' = time + 1
  /\ isClearing' = IF cyc.fromClear THEN FALSE ELSE isClearing
  /\ cycles' = cycles (-) SetToBag({cyc})
  /\ lastCycle' = [ threw |-> out.threw, steps |-> out.steps, result |-> out.result,
                    cred |-> answers[1], token |-> answers[2], fetched |-> answers[3] ]

\* Variant: a failed result has its fallback data put on display.
FetchDataSettle_ShowsFallback(cyc, out, errorNow, answers) ==
  /\ IF ~out.threw /\ out.result.success
     THEN /\ endpoints' = uniqueEndpoints(out.result.data)
          /\ lastUpdated' = time + 1
          /\ dataSource' = out.result.source
          /\ stats' = << CalculateStats(loadedEndpoints(out.result)) >>
          /\ error' = errorNow
     ELSE /\ error' = FetchErrorText
          /\ endpoints' = uniqueEndpoints(out.result.data)
          /\ dataSource' = out.result.source
          /\ UNCHANGED << lastUpdated, stats >>
  /\ loading' = FALSE
  /\ time' = time + 1
  /\ isClearing' = IF cyc.fromClear THEN FALSE ELSE isClearing
  /\ cycles' = cycles (-) SetToBag({cyc})
  /\ lastCycle' = [ threw |-> out.threw, steps |-> out.steps, result |-> out.result,
                    cred |-> answers[1], token |-> answers[2], fetched |-> answers[3] ]

\* The part of fetchData after `await getSophosEndpointData()`: the success
\* branch, the catch block and the finally block.  out is the outcome of the
\* awaited call, cyc the invocation that finishes, errorNow the error state
\* the invocation finds.
FetchDataSettle(cyc, out, errorNow, answers) ==
  /\ IF ~out.threw /\ out.result.success
     THEN /\ endpoints' = uniqueEndpoints(out.result.data)
          /\ lastUpdated' = time + 1
          /\ dataSource' = out.result.source
          /\ stats' = << CalculateStats(loadedEndpoints(out.result)) >>
          /\ error' = errorNow
     ELSE /\ error' = FetchErrorText
          /\ UNCHANGED << endpoints, lastUpdated, dataSource, stats >>
  /\ loading' = FALSE
  /\ time' = time + 1
  /\ isClearing' = IF cyc.fromClear THEN FALSE ELSE isClearing
  /\ cycles' = cycles (-) SetToBag({cyc})
  /\ lastCycle' = [ threw |-> out.threw, steps |-> out.steps, result |-> out.result,
                    cred |-> answers[1], token |-> answers[2], fetched |-> answers[3] ]

\* fetchData up to its first suspension: setLoading(true), setError(null) and
\* the call of getSophosEndpointData.  With the force-mock flag the call
\* answers without awaiting anything, so the invocation finishes in one go.
FetchDataStart(fromClear) ==
  /\ started < MaxCycles
  /\ started' = started + 1
  /\ LET cyc == [ fromClear |-> fromClear, pc |-> "load",
                  cred |-> Pending, token |-> Pending ]
     IN  IF forceMockData
         THEN FetchDataSettle(cyc, getSophosEndpointData(TRUE, Pending, Pending, Pending),
                              Null, <<Pending, Pending, Pending>>)
         ELSE /\ loading' = TRUE
              /\ error' = Null
              /\ cycles' = cycles (+) SetToBag({cyc})
              /\ UNCHANGED << endpoints, stats, lastUpdated, dataSource, time, lastCycle >>
              /\ isClearing' = isClearing

\* An invocation of fetchData continues after one of its awaited invocations
\* was answered: either getSophosEndpointData needs no further invocation and
\* fetchData runs to its end, or it suspends at the next one.
FetchDataResume(cyc, cred, token, fetchOut, nextPc) ==
  LET out == getSophosEndpointData(forceMockData, cred, token, fetchOut)
      consulted == CASE cyc.pc = "load"  -> 1
                     [] cyc.pc = "token" -> 2
                     [] cyc.pc = "fetch" -> 3
  IN  IF Len(out.steps) <= consulted
      THEN FetchDataSettle(cyc, out, error, <<cred, token, fetchOut>>)
      ELSE /\ cycles' = (cycles (-) SetToBag({cyc}))
                          (+) SetToBag({[cyc EXCEPT !.pc = nextPc, !.cred = cred,
                                                    !.token = token]})
           /\ UNCHANGED << endpoints, stats, loading, error, lastUpdated, dataSource,
                           isClearing, time, lastCycle >>

\* useEffect(() => { fetchData(); }, [])
Mount ==
  /\ ~mounted
  /\ mounted' = TRUE
  /\ FetchDataStart(FALSE)
  /\ UNCHANGED << libVars, filterVars, forceMockData, credentialsStored, clearPending, clearAnswer >>

\* Variant: the error screen offers the Refresh Data button as well.
ClickRefresh_OnErrorScreen ==
  /\ mounted
  /\ Screen \in {"main", "error"}
  /\ FetchDataStart(FALSE)
  /\ UNCHANGED << libVars, filterVars, forceMockData, credentialsStored, mounted, clearPending,
                  clearAnswer >>

\* The Refresh Data button: rendered on the main screen, disabled={loading}.
ClickRefresh ==
  /\ mounted
  /\ Screen = "main"
  /\ FetchDataStart(FALSE)
  /\ UNCHANGED << libVars, filterVars, forceMockData, credentialsStored, mounted, clearPending,
                  clearAnswer >>

\* The Clear Cache button: rendered on the main screen,
\* disabled={isClearing || loading}.  clearCache runs up to its await.
ClickClearCache ==
  /\ mounted
  /\ Screen = "main"
  /\ ~isClearing
  /\ isClearing' = TRUE
  /\ clearPending' = TRUE
  /\ clearAnswer' = "pending"
  /\ UNCHANGED << libVars, filterVars, forceMockData, credentialsStored, endpoints, stats, loading, error, lastUpdated,
                  dataSource, mounted, cycles, started, time, lastCycle >>

\* invoke('clear_cache') resolves: clearCache goes on to await fetchData().
ClearCacheResolve ==
  /\ clearPending
  /\ clearPending' = FALSE
  /\ clearAnswer' = "resolve"
  /\ FetchDataStart(TRUE)
  /\ UNCHANGED << libVars, filterVars, forceMockData, credentialsStored, mounted >>

\* Variant: the catch block of clearCache refreshes the data all the same.
ClearCacheReject_Refetch ==
  /\ clearPending
  /\ clearPending' = FALSE
  /\ clearAnswer' = "reject"
  /\ FetchDataStart(TRUE)
  /\ UNCHANGED << libVars, filterVars, forceMockData, credentialsStored, mounted >>

\* invoke('clear_cache') rejects: the catch and finally blocks of clearCache.
ClearCacheReject ==
  /\ clearPending
  /\ clearPending' = FALSE
  /\ clearAnswer' = "reject"
  /\ isClearing' = FALSE
  /\ UNCHANGED << libVars, filterVars, forceMockData, credentialsStored, endpoints, stats, loading, error, lastUpdated,
                  dataSource, mounted, cycles, started, time, lastCycle >>

\* invoke('load_sophos_credentials') settles for one invocation of fetchData.
LoadCredentialsSettle ==
  \E cyc \in BagToSet(cycles), out \in CredentialOutcomes(credentialsStored) :
    /\ cyc.pc = "load"
    /\ FetchDataResume(cyc, out, Pending, Pending, "token")
    /\ UNCHANGED << libVars, filterVars, forceMockData, credentialsStored, mounted, clearPending,
                    clearAnswer, started >>

\* invoke('get_sophos_access_token') settles.
AccessTokenSettle ==
  \E cyc \in BagToSet(cycles), out \in TokenOutcomes :
    /\ cyc.pc = "token"
    /\ FetchDataResume(cyc, cyc.cred, out, Pending, "fetch")
    /\ UNCHANGED << libVars, filterVars, forceMockData, credentialsStored, mounted, clearPending,
                    clearAnswer, started >>

\* invoke('fetch_sophos_endpoints') settles.
FetchEndpointsSettle ==
  \E cyc \in BagToSet(cycles), out \in FetchOutcomes :
    /\ cyc.pc = "fetch"
    /\ FetchDataResume(cyc, cyc.cred, cyc.token, out, "done")
    /\ UNCHANGED << libVars, filterVars, forceMockData, credentialsStored, mounted, clearPending,
                    clearAnswer, started >>

Next ==
  \/ Mount
  \/ ClickRefresh
  \/ ClickClearCache
  \/ ClearCacheResolve
  \/ ClearCacheReject
  \/ LoadCredentialsSettle
  \/ AccessTokenSettle
  \/ FetchEndpointsSettle

Spec == Init /\ [][Next]_vars

(* ------------------------------- claims -------------------------------- *)

\* Some invocation of fetchData has finished.
CycleFinished == time > 0

\* The token exchange of the last finished invocation failed: rejected or
\* answered with no token.
TokenExchangeFailed ==
  /\ lastCycle.token.kind \in {"resolve", "reject"}
  /\ lastCycle.token.kind = "resolve" => lastCycle.token.value \in {"", Null, Undefined}

\* The inventory fetch of the last finished invocation failed: rejected or
\* answered with something that is not a list of records.
InventoryFetchFailed ==
  /\ lastCycle.fetched.kind \in {"resolve", "reject"}
  /\ lastCycle.fetched.kind = "resolve" =>
       \/ ~lastCycle.fetched.value.isArray
       \/ \E i \in 1..Len(lastCycle.fetched.value.items) :
            IsNullItem(lastCycle.fetched.value.items[i])

\* The credential load of the last finished invocation yielded no credentials.
NoCredentialsLoaded ==
  /\ lastCycle.cred.kind \in {"resolve", "reject"}
  /\ lastCycle.cred.kind = "resolve" => lastCycle.cred.value = <<>>

\* C1: with the force-mock flag set, every invocation of
\* getSophosEndpointData returns success = true, source = "mock", the fixed
\* mock set and no error, and consults none of the three invocations.
C1_ForceMock ==
  (forceMockData /\ CycleFinished) =>
    /\ ~lastCycle.threw
    /\ lastCycle.result.success
    /\ lastCycle.result.source = "mock"
    /\ lastCycle.result.data = mockEndpoints
    /\ Len(lastCycle.result.data) = 10
    /\ lastCycle.result.error = Undefined
    /\ lastCycle.steps = <<>>

C1_Witness == forceMockData /\ credentialsStored /\ time = 2

\* C2 as stated: without the force-mock flag, a credential load that yields
\* no credentials gives the mock set with success = false and an error
\* message.
C2_Original ==
  (~forceMockData /\ CycleFinished /\ NoCredentialsLoaded) =>
    /\ lastCycle.result.data = mockEndpoints
    /\ ~lastCycle.result.success
    /\ lastCycle.result.error # Undefined

\* C2 amended: without the force-mock flag, a credential load that yields no
\* credentials gives the mock set with source = "mock", success = true and
\* no error, and neither the token exchange nor the fetch is consulted.
C2_NoCredentials ==
  (~forceMockData /\ CycleFinished /\ NoCredentialsLoaded) =>
    /\ ~lastCycle.threw
    /\ lastCycle.result.data = mockEndpoints
    /\ lastCycle.result.source = "mock"
    /\ lastCycle.result.success
    /\ lastCycle.result.error = Undefined
    /\ lastCycle.steps = <<"load">>

C2_Witness ==
  /\ ~forceMockData /\ CycleFinished
  /\ lastCycle.cred.kind = "reject"
  /\ lastCycle.result.success

\* C3: without the force-mock flag and with no credentials available, every
\* fetch cycle finishes without throwing and leaves the dashboard showing the
\* fixed mock set with dataSource = mock and error = null, on the main screen.
C3_MissingCredentialsNotAFailure ==
  (~forceMockData /\ ~credentialsStored /\ CycleFinished) =>
    /\ ~lastCycle.threw
    /\ endpoints = mockEndpoints
    /\ Len(endpoints) = 10
    /\ dataSource = "mock"
    /\ error = Null
    /\ Screen # "error"

C3_Witness ==
  /\ ~forceMockData /\ ~credentialsStored /\ CycleFinished
  /\ lastCycle.cred = [kind |-> "resolve", value |-> <<>>]
  /\ Screen = "main"
  /\ endpoints = mockEndpoints

\* C4: with credentials loaded, a failed token exchange or a failed inventory
\* fetch gives success = false, source = "mock", the fixed mock set and an
\* error message.
C4_FailureFallsBack ==
  (CycleFinished /\ ~NoCredentialsLoaded /\ lastCycle.cred.kind = "resolve"
     /\ (TokenExchangeFailed \/ InventoryFetchFailed)) =>
    /\ ~lastCycle.result.success
    /\ lastCycle.result.source = "mock"
    /\ lastCycle.result.data = mockEndpoints
    /\ lastCycle.result.error \notin {Undefined, Null, ""}

C4_Witness ==
  /\ CycleFinished
  /\ lastCycle.fetched.kind = "reject"
  /\ ~lastCycle.result.success
  /\ lastCycle.result.error = "Unknown error occurred while fetching from Sophos API"

\* C5: getSophosEndpointData never throws: whatever the credential load, the
\* token exchange and the inventory fetch answer, the invocation completes
\* with a result object.
C5_NeverThrows ==
  CycleFinished =>
    /\ ~lastCycle.threw
    /\ lastCycle.result.success \in BOOLEAN
    /\ lastCycle.result.source \in {"api", "mock"}

C5_Witness ==
  /\ CycleFinished
  /\ lastCycle.fetched.kind = "resolve"
  /\ InventoryFetchFailed
  /\ ~lastCycle.threw

\* The last finished invocation took the success branch of fetchData.
CycleSucceeded == CycleFinished /\ ~lastCycle.threw /\ lastCycle.result.success

\* No two records of list share an id.
NoDuplicateIds(list) ==
  \A i, j \in 1..Len(list) : list[i].id = list[j].id => i = j

\* The position of the first record of list with the given id.
FirstIndexOf(list, id) ==
  CHOOSE i \in 1..Len(list) :
    /\ list[i].id = id
    /\ \A j \in 1..(i - 1) : list[j].id # id

\* out is the first-occurrence-wins deduplication of in.
FirstOccurrenceWins(in, out) ==
  /\ \A i \in 1..Len(in) :
       Cardinality({ j \in 1..Len(out) : out[j].id = in[i].id }) = 1
  /\ \A j \in 1..Len(out) :
       /\ \E i \in 1..Len(in) : in[i].id = out[j].id
       /\ out[j] = in[FirstIndexOf(in, out[j].id)]
  /\ \A j, k \in 1..Len(out) :
       j < k => FirstIndexOf(in, out[j].id) < FirstIndexOf(in, out[k].id)

\* C6 as stated: after a fetch cycle whose token exchange or inventory fetch
\* failed, the dashboard shows the mock set with dataSource = mock, and not
\* the error-only screen.
C6_FailureShowsMock ==
  (CycleFinished /\ (TokenExchangeFailed \/ InventoryFetchFailed)) =>
    /\ endpoints = mockEndpoints
    /\ dataSource = "mock"
    /\ Screen # "error"

\* C7 as stated: on the success path (source = "api") no two records of the
\* data returned by getSophosEndpointData share an id.
C7_ReturnedDataDeduplicated ==
  (CycleFinished /\ lastCycle.result.source = "api") =>
    NoDuplicateIds(lastCycle.result.data)

\* C7 amended: on the success path the returned data holds one normalized
\* record per raw record, in the order fetched, repeated ids included; the
\* deduplication is done by fetchData, so no two records of the endpoint list
\* it stores share an id.
C7_DeduplicatedInFetchData ==
  (CycleFinished /\ lastCycle.result.source = "api") =>
    /\ lastCycle.result.success
    /\ Len(lastCycle.result.data) = Len(lastCycle.fetched.value.items)
    /\ \A i \in 1..Len(lastCycle.result.data) :
         lastCycle.result.data[i].id = GetStr(lastCycle.fetched.value.items[i], "id")
    /\ NoDuplicateIds(endpoints)
    /\ { endpoints[i].id : i \in 1..Len(endpoints) }
         = { lastCycle.result.data[i].id : i \in 1..Len(lastCycle.result.data) }

C7_Witness ==
  /\ CycleFinished /\ lastCycle.result.source = "api"
  /\ ~NoDuplicateIds(lastCycle.result.data)
  /\ Len(endpoints) = 1

\* C8: the endpoint list stored by a successful fetch cycle holds exactly one
\* record per distinct id of the data, that record is the first one with the
\* id in the data, and the kept records stand in the order of the data.
C8_FirstOccurrenceWins ==
  CycleSucceeded => FirstOccurrenceWins(lastCycle.result.data, endpoints)

C8_Witness ==
  /\ CycleSucceeded
  /\ \E i, j \in 1..Len(lastCycle.result.data) :
       /\ i < j
       /\ lastCycle.result.data[i].id = lastCycle.result.data[j].id
       /\ lastCycle.result.data[i] # lastCycle.result.data[j]
       /\ \E k \in 1..Len(endpoints) : endpoints[k] = lastCycle.result.data[i]

\* C9 as stated: whenever statistics are held, totalEndpoints is the length
\* of the endpoint list held and the online, health and frequency counts are
\* the counts over that list.
C9_StatsOfEndpointList ==
  stats # <<>> =>
    /\ stats[1].totalEndpoints = Len(endpoints)
    /\ stats[1] = CalculateStats(endpoints)

\* C10: the statistics of a successful fetch cycle over a list of N records
\* of which M are online have totalEndpoints = N, onlineEndpoints = M and
\* offlineEndpoints = N - M; whenever statistics are held, online + offline =
\* total and no count is negative.
C10_OnlineOfflineCounts ==
  /\ CycleSucceeded =>
       LET list == lastCycle.result.data
           N == Len(list)
           M == Cardinality({ i \in 1..Len(list) : list[i].online = TRUE })
       IN  /\ stats[1].totalEndpoints = N
           /\ stats[1].onlineEndpoints = M
           /\ stats[1].offlineEndpoints = N - M
  /\ stats # <<>> =>
       /\ stats[1].onlineEndpoints + stats[1].offlineEndpoints = stats[1].totalEndpoints
       /\ stats[1].totalEndpoints >= 0
       /\ stats[1].onlineEndpoints >= 0
       /\ stats[1].offlineEndpoints >= 0

C10_Witness ==
  /\ CycleSucceeded
  /\ lastCycle.result.source = "api"
  /\ stats[1].totalEndpoints = 2
  /\ stats[1].onlineEndpoints = 1
  /\ stats[1].offlineEndpoints = 1

(* --------------------- normalization of raw records -------------------- *)

\* The raw fields an address list may arrive in.
IpFields ==
  { "ipAddresses", "ip_addresses", "ipv4Addresses", "ipv6Addresses",
    "ipv4_addresses", "ipv6_addresses" }

\* Addresses by field, so that the origin of an address stays visible.
AddressPool ==
  [ ipAddresses    |-> <<"192.0.2.1", "192.0.2.2", "192.0.2.3">>,
    ip_addresses   |-> <<"198.51.100.1", "198.51.100.2", "198.51.100.3">>,
    ipv4Addresses  |-> <<"10.0.0.1", "10.0.0.2", "10.0.0.3">>,
    ipv6Addresses  |-> <<"::1", "::2", "::3">>,
    ipv4_addresses |-> <<"172.16.0.1", "172.16.0.2", "172.16.0.3">>,
    ipv6_addresses |-> <<"fe80::1", "fe80::2", "fe80::3">> ]

\* The value of a raw IP field: -1 is a value that is not a list, n >= 0 a
\* list of n addresses.
RawIpValue(f, c) ==
  IF c = -1 THEN [isArray |-> FALSE, items |-> <<>>]
  ELSE [isArray |-> TRUE, items |-> SubSeq(AddressPool[f], 1, c)]

\* Raw records that differ in their IP fields; -2 is an absent field.
RawIpRecords ==
  { [id |-> "x"] @@ [f \in { g \in IpFields : c[g] # -2 } |-> RawIpValue(f, c[f])] :
      c \in [IpFields -> -2..MaxIpLen] }

\* A field that is absent or carries one of the values vs.
OptionalField(f, vs) == { <<>> } \cup { (f :> v) : v \in vs }

\* Raw records that differ in the fields with a default.
RawFieldRecords ==
  { id @@ hostname @@ os @@ etype @@ type @@ online @@ health @@ group :
      id \in OptionalField("id", {"x"}),
      hostname \in OptionalField("hostname", {"", "host-1"}),
      os \in OptionalField("os", {[name |-> "Linux"], [name |-> ""], [version |-> "6.1"]}),
      etype \in OptionalField("endpoint_type", {"server"}),
      type \in OptionalField("type", {"mobile"}),
      online \in OptionalField("online", BOOLEAN),
      health \in OptionalField("health", {[overall |-> "good"], [score |-> "1"]}),
      group \in OptionalField("group", {[name |-> "Sales Team"], [id |-> "g"]}) }

RawRecords == RawIpRecords \cup RawFieldRecords

\* A raw record arrives from the inventory.
InitNormalize ==
  /\ FreshDashboard
  /\ libRaw0 \in RawRecords
  /\ libRaw = libRaw0
  /\ libOuts = <<>>
  /\ libLog = <<>>

\* The map callback runs over the record once more.
NormalizePass ==
  /\ Len(libOuts) < MaxPasses
  /\ LET step == NormalizeStep(libRaw)
     IN  /\ libRaw' = step.raw
         /\ libOuts' = Append(libOuts, step.endpoint)
  /\ UNCHANGED << dashVars, libRaw0, libLog >>

NextNormalize == NormalizePass

SpecNormalize == InitNormalize /\ [][NextNormalize]_vars

\* The list carried by field f of a raw record, empty when the field is
\* absent or is not a list.
ListIn(item, f) ==
  IF f \notin DOMAIN item THEN <<>>
  ELSE IF item[f].isArray THEN item[f].items ELSE <<>>

\* C11: the normalized ipAddresses are the combined ipAddresses list when it
\* is non-empty, else the ip_addresses list when it is non-empty, else the
\* lists of ipv4Addresses, ipv6Addresses, ipv4_addresses, ipv6_addresses
\* joined in this order, an absent or non-list field counting as empty.
C11_IpResolutionOrder ==
  Len(libOuts) >= 1 =>
    LET ips == libOuts[1].ipAddresses
    IN  CASE Len(ListIn(libRaw0, "ipAddresses")) > 0 ->
               ips = ListIn(libRaw0, "ipAddresses")
          [] Len(ListIn(libRaw0, "ipAddresses")) = 0
             /\ Len(ListIn(libRaw0, "ip_addresses")) > 0 ->
               ips = ListIn(libRaw0, "ip_addresses")
          [] OTHER ->
               /\ ips = ListIn(libRaw0, "ipv4Addresses") \o ListIn(libRaw0, "ipv6Addresses")
                        \o ListIn(libRaw0, "ipv4_addresses") \o ListIn(libRaw0, "ipv6_addresses")
               /\ (IpFields \cap DOMAIN libRaw0 = {} => ips = <<>>)

C11_Witness ==
  /\ Len(libOuts) >= 1
  /\ "ipAddresses" \in DOMAIN libRaw0 /\ libRaw0.ipAddresses.items = <<>>
  /\ "ip_addresses" \in DOMAIN libRaw0 /\ ~libRaw0.ip_addresses.isArray
  /\ libOuts[1].ipAddresses = <<"10.0.0.1", "::1", "172.16.0.1", "fe80::1">>

\* C12: a raw record that lacks a field with a default gets that default:
\* hostname "Unknown", os.name "Unknown OS", type "computer" (read from
\* endpoint_type), online false, health.overall "unknown", group.name
\* "No Group"; a field present with a non-empty value is carried unchanged.
C12_Defaults ==
  Len(libOuts) >= 1 =>
    LET item == libRaw0
        out  == libOuts[1]
        Has(f) == f \in DOMAIN item
        HasIn(f, g) == f \in DOMAIN item /\ g \in DOMAIN item[f]
    IN  /\ ~Has("hostname") => out.hostname = "Unknown"
        /\ (Has("hostname") /\ item.hostname # "") => out.hostname = item.hostname
        /\ ~HasIn("os", "name") => out.os.name = "Unknown OS"
        /\ (HasIn("os", "name") /\ item.os.name # "") => out.os.name = item.os.name
        /\ ~Has("endpoint_type") => out.type = "computer"
        /\ Has("endpoint_type") => out.type = item.endpoint_type
        /\ ~Has("online") => out.online = FALSE
        /\ Has("online") => out.online = item.online
        /\ ~HasIn("health", "overall") => out.health.overall = "unknown"
        /\ HasIn("health", "overall") => out.health.overall = item.health.overall
        /\ ~HasIn("group", "name") => out.group.name = "No Group"
        /\ HasIn("group", "name") => out.group.name = item.group.name

C12_Witness ==
  /\ Len(libOuts) >= 1
  /\ DOMAIN libRaw0 = {"type", "group"}
  /\ libRaw0.type = "mobile"
  /\ libOuts[1].type = "computer"
  /\ libOuts[1].hostname = "Unknown"
  /\ libOuts[1].group.name = "Sales Team"

\* C13 as stated: every record of the normalized list returned on the
\* success path, and every record of the deduplicated list stored from it,
\* carries a defined id, also when a raw record came without one.
C13_IdAlwaysDefined ==
  (CycleSucceeded /\ lastCycle.result.source = "api") =>
    /\ \A i \in 1..Len(lastCycle.result.data) : lastCycle.result.data[i].id # Undefined
    /\ \A i \in 1..Len(endpoints) : endpoints[i].id # Undefined

C15_SingleFetchInFlight == BagCardinality(cycles) <= 1

\* The credential load answered with credentials.
CredentialsLoaded(c) == c.kind = "resolve" /\ c.value # <<>>

\* The token exchange answered with a usable token.
TokenObtained(t) == t.kind = "resolve" /\ t.value \notin {"", Null, Undefined}

\* C16: one invocation of getSophosEndpointData consults the credential
\* load, the token exchange and the inventory fetch in this order and each at
\* most once; the token exchange is requested only with credentials loaded,
\* the inventory fetch only with a token obtained; after a failed token
\* exchange the invocation ends with no further request.
C16_StepsInOrder ==
  /\ lastCycle.steps \in { <<>>, <<"load">>, <<"load", "token">>, <<"load", "token", "fetch">> }
  /\ lastCycle.token # Pending => CredentialsLoaded(lastCycle.cred)
  /\ lastCycle.fetched # Pending =>
       CredentialsLoaded(lastCycle.cred) /\ TokenObtained(lastCycle.token)
  /\ TokenExchangeFailed =>
       lastCycle.steps = <<"load", "token">> /\ lastCycle.fetched = Pending
  /\ \A cyc \in BagToSet(cycles) :
       /\ cyc.pc = "load" => cyc.cred = Pending /\ cyc.token = Pending
       /\ cyc.pc = "token" => CredentialsLoaded(cyc.cred) /\ cyc.token = Pending
       /\ cyc.pc = "fetch" => CredentialsLoaded(cyc.cred) /\ TokenObtained(cyc.token)

C16_Witness ==
  /\ CycleFinished
  /\ CredentialsLoaded(lastCycle.cred)
  /\ lastCycle.token = [kind |-> "resolve", value |-> Null]
  /\ lastCycle.steps = <<"load", "token">>
  /\ lastCycle.fetched = Pending
  /\ \E cyc \in BagToSet(cycles) : cyc.pc = "fetch"

\* C17: after a successful fetch cycle the endpoint list holds exactly the
\* records of that cycle's data, one per id, and the statistics are the
\* counts over that cycle's data; nothing of an earlier cycle is in either.
C17_FullyReplaced ==
  CycleSucceeded =>
    LET data == lastCycle.result.data
        Count(Test(_)) == Cardinality({ j \in 1..Len(data) : Test(data[j]) })
        IsOnline(e) == e.online = TRUE
        IsGood(e) == e.health.overall = "good"
        IsWarning(e) == e.health.overall = "warning"
        IsCritical(e) == e.health.overall = "critical"
    IN  /\ \A i \in 1..Len(endpoints) : \E j \in 1..Len(data) : data[j] = endpoints[i]
        /\ \A j \in 1..Len(data) : \E i \in 1..Len(endpoints) : endpoints[i].id = data[j].id
        /\ NoDuplicateIds(endpoints)
        /\ stats # <<>>
        /\ stats[1].totalEndpoints = Len(data)
        /\ stats[1].onlineEndpoints = Count(IsOnline)
        /\ stats[1].healthyEndpoints = Count(IsGood)
        /\ stats[1].warningEndpoints = Count(IsWarning)
        /\ stats[1].criticalEndpoints = Count(IsCritical)
        /\ DOMAIN stats[1].osCounts = { data[j].os.name : j \in 1..Len(data) }
        /\ DOMAIN stats[1].typeCounts = { data[j].type : j \in 1..Len(data) }
        /\ DOMAIN stats[1].groupCounts = { data[j].group.name : j \in 1..Len(data) }

C17_Witness ==
  /\ CycleSucceeded
  /\ time >= 2
  /\ lastUpdated = time
  /\ lastCycle.result.source = "api"
  /\ Len(endpoints) = 1
  /\ stats[1].totalEndpoints = 1
  /\ DOMAIN stats[1].groupCounts = {"Sales Team"}

RECURSIVE SumOfCounts(_, _)
\* The sum of the counts a table holds for the given keys.
SumOfCounts(table, keys) ==
  IF keys = {} THEN 0
  ELSE LET k == CHOOSE x \in keys : TRUE
       IN  table[k] + SumOfCounts(table, keys \ {k})

LoadedDashboard ==
  /\ forceMockData = TRUE
  /\ credentialsStored \in BOOLEAN
  /\ endpoints = mockEndpoints
  /\ stats = << CalculateStats(mockEndpoints) >>
  /\ loading = FALSE
  /\ error = Null
  /\ lastUpdated = 1
  /\ dataSource = "mock"
  /\ isClearing = FALSE
  /\ mounted = TRUE
  /\ clearPending = FALSE
  /\ clearAnswer = "none"
  /\ searchTerm = ""
  /\ statusFilter = "all"
  /\ healthFilter = "all"
  /\ osFilter = "all"
  /\ typeFilter = "all"
  /\ groupFilter = "all"
  /\ clearedFilters = FALSE
  /\ cycles = EmptyBag
  /\ started = 1
  /\ time = 1
  /\ lastCycle = [ threw |-> FALSE, steps |-> <<>>, result |-> ForcedMockResult.result,
                   cred |-> Pending, token |-> Pending, fetched |-> Pending ]

InitUtility == (FreshDashboard \/ LoadedDashboard) /\ LibIdle

\* A caller awaits loadSophosCredentials().
CallLoadCredentials ==
  /\ Len(libLog) < MaxLibCalls
  /\ \E out \in CredentialOutcomes(credentialsStored) :
       libLog' = Append(libLog, [ fn |-> "loadSophosCredentials", outcome |-> out,
                                  ret |-> loadSophosCredentials(out) ])
  /\ UNCHANGED << dashVars, libRaw0, libRaw, libOuts >>

\* A caller awaits saveSophosCredentials(credentials); a save that went
\* through leaves credentials in the store.
CallSaveCredentials ==
  /\ Len(libLog) < MaxLibCalls
  /\ \E out \in SaveOutcomes :
       /\ libLog' = Append(libLog, [ fn |-> "saveSophosCredentials", outcome |-> out,
                                     ret |-> saveSophosCredentials(out) ])
       /\ credentialsStored' = (credentialsStored \/ out.kind = "resolve")
  /\ UNCHANGED << forceMockData, endpoints, stats, loading, error, lastUpdated, dataSource,
                  isClearing, mounted, clearPending, clearAnswer, cycles, started, time,
                  lastCycle, filterVars, libRaw0, libRaw, libOuts >>

\* A caller awaits clearSophosCache().
CallClearCache ==
  /\ Len(libLog) < MaxLibCalls
  /\ \E out \in ClearOutcomes :
       libLog' = Append(libLog, [ fn |-> "clearSophosCache", outcome |-> out,
                                  ret |-> clearSophosCache(out) ])
  /\ UNCHANGED << dashVars, libRaw0, libRaw, libOuts >>

NextUtility ==
  \/ CallLoadCredentials
  \/ CallSaveCredentials
  \/ CallClearCache

SpecUtility == InitUtility /\ [][NextUtility]_vars

\* C18: loadSophosCredentials returns null when the load fails,
\* saveSophosCredentials returns false when the save fails and true when it
\* went through, and neither throws for any outcome of the storage call.
C18_StorageFailuresNotThrown ==
  \A i \in 1..Len(libLog) :
    LET call == libLog[i]
    IN  /\ call.fn = "loadSophosCredentials" =>
             /\ ~call.ret.threw
             /\ call.outcome.kind = "reject" => call.ret.value = <<>>
             /\ call.outcome.kind = "resolve" => call.ret.value = call.outcome.value
        /\ call.fn = "saveSophosCredentials" =>
             /\ ~call.ret.threw
             /\ call.ret.value = (call.outcome.kind = "resolve")

C18_Witness ==
  /\ Len(libLog) = 2
  /\ libLog[1].fn = "loadSophosCredentials"
  /\ libLog[1].outcome.kind = "reject"
  /\ libLog[1].ret.value = <<>>
  /\ libLog[2].fn = "saveSophosCredentials"
  /\ libLog[2].outcome.kind = "reject"
  /\ libLog[2].ret.value = FALSE

\* C19: a call of clearSophosCache invokes clear_cache exactly once with no
\* arguments, returns true when that resolved and false when it rejected,
\* does not throw, and leaves the endpoint list, the statistics and every
\* other part of the dashboard state as they were.
C19_ClearCachePassThrough ==
  [][ (Len(libLog') = Len(libLog) + 1 /\ libLog'[Len(libLog')].fn = "clearSophosCache") =>
        LET call == libLog'[Len(libLog')]
        IN  /\ call.ret.invoked = << [cmd |-> "clear_cache", args |-> <<>>] >>
            /\ ~call.ret.threw
            /\ call.ret.value = (call.outcome.kind = "resolve")
            /\ dashVars' = dashVars ]_vars

C19_Witness ==
  /\ endpoints = mockEndpoints
  /\ stats # <<>>
  /\ Len(libLog) = 2
  /\ libLog[1].fn = "clearSophosCache"
  /\ libLog[1].outcome.kind = "reject"
  /\ libLog[1].ret.value = FALSE
  /\ libLog[2].fn = "clearSophosCache"
  /\ libLog[2].outcome.kind = "resolve"
  /\ libLog[2].ret.value = TRUE

(* ------------------------- results and their display -------------------- *)

\* C22: every result of getSophosEndpointData is of one of three shapes:
\* success with source api and no error, success with source mock, the
\* fixed mock set and no error, or failure with source mock, the fixed mock
\* set and an error text.
C22_ThreeResultShapes ==
  CycleFinished =>
    LET r == lastCycle.result
    IN  /\ ~lastCycle.threw
        /\ \/ r.success = TRUE /\ r.source = "api" /\ r.error = Undefined
           \/ r.success = TRUE /\ r.source = "mock" /\ r.data = mockEndpoints
              /\ r.error = Undefined
           \/ r.success = FALSE /\ r.source = "mock" /\ r.data = mockEndpoints
              /\ r.error \notin {Undefined, Null}
        /\ r.source = "api" => r.success = TRUE
        /\ r.source = "mock" => r.data = mockEndpoints
        /\ (r.error # Undefined) <=> (r.success = FALSE)

C22_Witness ==
  /\ CycleFinished
  /\ lastCycle.fetched = [kind |-> "resolve", value |-> [isArray |-> FALSE, items |-> <<>>]]
  /\ lastCycle.result.success = FALSE
  /\ lastCycle.result.source = "mock"
  /\ lastCycle.result.data = mockEndpoints
  /\ lastCycle.result.error = TypeError.message

C24_LoadingUntilCycleDone ==
  /\ cycles # EmptyBag => loading = TRUE
  /\ (mounted /\ cycles = EmptyBag) => loading = FALSE

\* The successful results getSophosEndpointData can return: the mock result
\* and an api result for every batch of raw records.
SuccessfulResults ==
  { MockResult }
  \cup { [success |-> TRUE, data |-> MapEndpoints(b), source |-> "api", error |-> Undefined] :
           b \in SeqsUpTo(RawEndpointSet, MaxBatch) }

\* C25: in every reachable state the endpoint list, dataSource and the
\* statistics come from one and the same fetch result: before the first
\* successful cycle nothing is held, and afterwards there is one result whose
\* source is dataSource, whose deduplicated data is the endpoint list and
\* whose data the statistics count; so dataSource = 'api' only with a list
\* and statistics of an api result.
C25_DisplayFromOneResult ==
  IF stats = <<>>
  THEN endpoints = <<>> /\ dataSource = "mock" /\ lastUpdated = 0
  ELSE \E r \in SuccessfulResults :
         /\ dataSource = r.source
         /\ NoDuplicateIds(endpoints)
         /\ \A i \in 1..Len(endpoints) : \E j \in 1..Len(r.data) : r.data[j] = endpoints[i]
         /\ \A j \in 1..Len(r.data) : \E i \in 1..Len(endpoints) : endpoints[i].id = r.data[j].id
         /\ stats[1].totalEndpoints = Len(r.data)
         /\ stats[1].onlineEndpoints
              = Cardinality({ j \in 1..Len(r.data) : r.data[j].online = TRUE })
         /\ DOMAIN stats[1].groupCounts = { r.data[j].group.name : j \in 1..Len(r.data) }
         /\ DOMAIN stats[1].osCounts = { r.data[j].os.name : j \in 1..Len(r.data) }
         /\ DOMAIN stats[1].typeCounts = { r.data[j].type : j \in 1..Len(r.data) }

C25_Witness ==
  /\ dataSource = "api"
  /\ Len(endpoints) = 1
  /\ stats[1].totalEndpoints = 2
  /\ CycleFinished
  /\ lastCycle.result.source = "mock"
  /\ BagCardinality(cycles) >= 1

(* ------------------------------- clearCache ----------------------------- *)

\* A fetchData invocation awaited by clearCache is in flight.
RefetchInFlight(bag) == \E cyc \in BagToSet(bag) : cyc.fromClear

\* C26: the Clear Cache action starts its refetch only in the step in which
\* clear_cache resolved; when clear_cache rejects, no fetch cycle is started
\* and the endpoint list, the statistics and error stay as they were; and
\* isClearing is true exactly from the click until the action, its refetch
\* included, has finished.
C26_ClearCacheThenRefetch ==
  [][ /\ (clearPending /\ ~clearPending' /\ clearAnswer' = "reject") =>
           /\ started' = started
           /\ cycles' = cycles
           /\ endpoints' = endpoints
           /\ stats' = stats
           /\ error' = error
           /\ isClearing' = FALSE
      /\ (clearPending /\ ~clearPending' /\ clearAnswer' # "reject") =>
           /\ clearAnswer' = "resolve"
           /\ started' = started + 1
      /\ (RefetchInFlight(cycles') /\ ~RefetchInFlight(cycles)) =>
           (clearPending /\ clearAnswer' = "resolve")
      /\ (~clearPending /\ clearPending') => (~isClearing /\ isClearing')
      /\ isClearing' <=> (clearPending' \/ RefetchInFlight(cycles')) ]_vars

C26_Witness ==
  /\ clearAnswer = "reject"
  /\ ~isClearing
  /\ ~clearPending
  /\ started = 1
  /\ error = Null
  /\ Len(endpoints) = 2
  /\ stats[1].totalEndpoints = 2

\* A fetch cycle has ended with error set and nothing is pending: no fetch
\* cycle in flight, no clear_cache awaited.
ErrorAtRest ==
  /\ mounted
  /\ loading = FALSE
  /\ error # Null
  /\ cycles = EmptyBag
  /\ ~clearPending

\* C27: once a fetch cycle has ended with error set and nothing is pending,
\* no fetch cycle is started any more: error stays as it is and the endpoint
\* list never changes again.
C27_ErrorScreenIsFinal ==
  [][ ErrorAtRest =>
        /\ ErrorAtRest'
        /\ started' = started
        /\ error' = error
        /\ endpoints' = endpoints ]_vars

C27_Witness ==
  /\ ErrorAtRest
  /\ started < MaxCycles
  /\ time >= 2
  /\ Len(endpoints) >= 1
  /\ ~isClearing

(* ---------------------------- search and filters ----------------------- *)

\* What the user types into the search box.
SearchTerms == {"", "sales", "HOST"}

\* String.prototype.toLowerCase over the texts that are searched; a text
\* that is not listed has no upper-case letter.
LowerCase ==
  [ t \in { "HOST", "Unknown", "Unknown OS", "Linux", "No Group", "Sales Team",
            "DESKTOP-ABC123", "LAPTOP-XYZ789", "MACBOOK-PRO-001", "SERVER-PROD-01",
            "UBUNTU-DEV-01", "WORKSTATION-DESIGN", "LAPTOP-SALES-01", "SERVER-DB-01",
            "LAPTOP-HR-01", "IPHONE-SALES-02", "Windows 11", "Windows 10", "macOS",
            "Windows Server 2022", "Ubuntu", "Windows Server 2019", "iOS",
            "IT Department", "Design Team", "Production Servers", "Development",
            "HR Department" } |->
      CASE t = "HOST" -> "host"
        [] t = "Unknown" -> "unknown"
        [] t = "Unknown OS" -> "unknown os"
        [] t = "Linux" -> "linux"
        [] t = "No Group" -> "no group"
        [] t = "Sales Team" -> "sales team"
        [] t = "DESKTOP-ABC123" -> "desktop-abc123"
        [] t = "LAPTOP-XYZ789" -> "laptop-xyz789"
        [] t = "MACBOOK-PRO-001" -> "macbook-pro-001"
        [] t = "SERVER-PROD-01" -> "server-prod-01"
        [] t = "UBUNTU-DEV-01" -> "ubuntu-dev-01"
        [] t = "WORKSTATION-DESIGN" -> "workstation-design"
        [] t = "LAPTOP-SALES-01" -> "laptop-sales-01"
        [] t = "SERVER-DB-01" -> "server-db-01"
        [] t = "LAPTOP-HR-01" -> "laptop-hr-01"
        [] t = "IPHONE-SALES-02" -> "iphone-sales-02"
        [] t = "Windows 11" -> "windows 11"
        [] t = "Windows 10" -> "windows 10"
        [] t = "macOS" -> "macos"
        [] t = "Windows Server 2022" -> "windows server 2022"
        [] t = "Ubuntu" -> "ubuntu"
        [] t = "Windows Server 2019" -> "windows server 2019"
        [] t = "iOS" -> "ios"
        [] t = "IT Department" -> "it department"
        [] t = "Design Team" -> "design team"
        [] t = "Production Servers" -> "production servers"
        [] t = "Development" -> "development"
        [] t = "HR Department" -> "hr department" ]

toLowerCase(str) == IF str \in DOMAIN LowerCase THEN LowerCase[str] ELSE str

\* The searched texts, in lower case, that hold a lower-case search term as
\* a proper part.
TextsHolding ==
  [ sales |-> {"sales team", "laptop-sales-01", "iphone-sales-02"},
    host  |-> {"host-a"} ]

\* String.prototype.includes over lower-case texts.
includes(text, part) ==
  \/ part = ""
  \/ text = part
  \/ part \in DOMAIN TextsHolding /\ text \in TextsHolding[part]

\* The callback of endpoints.filter: the search and the five filters.
MatchesFilters(endpoint) ==
  LET matchesSearch ==
        \/ includes(toLowerCase(endpoint.hostname), toLowerCase(searchTerm))
        \/ includes(toLowerCase(endpoint.os.name), toLowerCase(searchTerm))
        \/ includes(toLowerCase(endpoint.group.name), toLowerCase(searchTerm))
      matchesStatus ==
        \/ statusFilter = "all"
        \/ statusFilter = "online" /\ endpoint.online = TRUE
        \/ statusFilter = "offline" /\ endpoint.online # TRUE
      matchesHealth == healthFilter = "all" \/ endpoint.health.overall = healthFilter
      matchesOs == osFilter = "all" \/ endpoint.os.name = osFilter
      matchesType == typeFilter = "all" \/ endpoint.type = typeFilter
      matchesGroup == groupFilter = "all" \/ endpoint.group.name = groupFilter
  IN  matchesSearch /\ matchesStatus /\ matchesHealth /\ matchesOs /\ matchesType
      /\ matchesGroup

\* The rows of the endpoints table.
filteredEndpoints == SelectSeq(endpoints, MatchesFilters)

\* The options of a select fed from a frequency table of the statistics.
OptionsOf(table) == {"all"} \cup DOMAIN table

\* The answers of the three invocations of an initial load.
FirstLoads ==
  { [ cred |-> [kind |-> "resolve", value |-> <<>>], token |-> Pending, fetched |-> Pending ] }
  \cup { [ cred |-> [kind |-> "resolve", value |-> <<Credentials>>],
           token |-> [kind |-> "resolve", value |-> "token"],
           fetched |-> f ] : f \in FetchOutcomes }

\* The dashboard after an initial load that succeeded, nothing clicked yet.
InitFilter ==
  /\ \E a \in FirstLoads :
       LET out == getSophosEndpointData(FALSE, a.cred, a.token, a.fetched)
       IN  /\ ~out.threw /\ out.result.success
           /\ endpoints = uniqueEndpoints(out.result.data)
           /\ stats = << CalculateStats(loadedEndpoints(out.result)) >>
           /\ dataSource = out.result.source
           /\ lastCycle = [ threw |-> FALSE, steps |-> out.steps, result |-> out.result,
                            cred |-> a.cred, token |-> a.token, fetched |-> a.fetched ]
  /\ forceMockData = FALSE
  /\ credentialsStored = TRUE
  /\ loading = FALSE
  /\ error = Null
  /\ lastUpdated = 1
  /\ isClearing = FALSE
  /\ mounted = TRUE
  /\ clearPending = FALSE
  /\ clearAnswer = "none"
  /\ cycles = EmptyBag
  /\ started = 1
  /\ time = 1
  /\ searchTerm = ""
  /\ statusFilter = "all"
  /\ healthFilter = "all"
  /\ osFilter = "all"
  /\ typeFilter = "all"
  /\ groupFilter = "all"
  /\ clearedFilters = FALSE
  /\ LibIdle

\* What a click or a keystroke on the main screen leaves alone.
FilterFrame ==
  UNCHANGED << forceMockData, credentialsStored, endpoints, stats, loading, error, lastUpdated,
               dataSource, isClearing, mounted, clearPending, clearAnswer, cycles, started,
               time, lastCycle, libVars >>

\* onChange of the search box.
SetSearchTerm ==
  /\ Screen = "main"
  /\ \E t \in SearchTerms : searchTerm' = t
  /\ clearedFilters' = FALSE
  /\ UNCHANGED << statusFilter, healthFilter, osFilter, typeFilter, groupFilter >>
  /\ FilterFrame

\* onChange of the Status select.
SetStatusFilter ==
  /\ Screen = "main"
  /\ \E v \in {"all", "online", "offline"} : statusFilter' = v
  /\ clearedFilters' = FALSE
  /\ UNCHANGED << searchTerm, healthFilter, osFilter, typeFilter, groupFilter >>
  /\ FilterFrame

\* onChange of the Health select.
SetHealthFilter ==
  /\ Screen = "main"
  /\ \E v \in {"all", "good", "warning", "critical"} : healthFilter' = v
  /\ clearedFilters' = FALSE
  /\ UNCHANGED << searchTerm, statusFilter, osFilter, typeFilter, groupFilter >>
  /\ FilterFrame

\* onChange of the Operating System select.
SetOsFilter ==
  /\ Screen = "main"
  /\ \E v \in OptionsOf(IF stats = <<>> THEN <<>> ELSE stats[1].osCounts) : osFilter' = v
  /\ clearedFilters' = FALSE
  /\ UNCHANGED << searchTerm, statusFilter, healthFilter, typeFilter, groupFilter >>
  /\ FilterFrame

\* onChange of the Type select.
SetTypeFilter ==
  /\ Screen = "main"
  /\ \E v \in OptionsOf(IF stats = <<>> THEN <<>> ELSE stats[1].typeCounts) : typeFilter' = v
  /\ clearedFilters' = FALSE
  /\ UNCHANGED << searchTerm, statusFilter, healthFilter, osFilter, groupFilter >>
  /\ FilterFrame

\* onClick of a row of the Groups card: All Groups, No Group or a group.
SetGroupFilter ==
  /\ Screen = "main"
  /\ \E g \in OptionsOf(IF stats = <<>> THEN <<>> ELSE stats[1].groupCounts) : groupFilter' = g
  /\ clearedFilters' = FALSE
  /\ UNCHANGED << searchTerm, statusFilter, healthFilter, osFilter, typeFilter >>
  /\ FilterFrame

\* Variant: the button clears the group filter with the others.
ClearSearchAndFilters_AlsoGroup ==
  /\ Screen = "main"
  /\ searchTerm' = ""
  /\ statusFilter' = "all"
  /\ healthFilter' = "all"
  /\ osFilter' = "all"
  /\ typeFilter' = "all"
  /\ groupFilter' = "all"
  /\ clearedFilters' = TRUE
  /\ FilterFrame

\* onClick of the Clear Search & Filters button.
ClearSearchAndFilters ==
  /\ Screen = "main"
  /\ searchTerm' = ""
  /\ statusFilter' = "all"
  /\ healthFilter' = "all"
  /\ osFilter' = "all"
  /\ typeFilter' = "all"
  /\ clearedFilters' = TRUE
  /\ UNCHANGED groupFilter
  /\ FilterFrame

NextFilter ==
  \/ SetSearchTerm
  \/ SetStatusFilter
  \/ SetHealthFilter
  \/ SetOsFilter
  \/ SetTypeFilter
  \/ SetGroupFilter
  \/ ClearSearchAndFilters

SpecFilter == InitFilter /\ [][NextFilter]_vars

\* C21: a click on Clear Search & Filters leaves searchTerm empty and the
\* status, health, OS and type filters at 'all', and leaves groupFilter, the
\* endpoint list, the statistics and the data source as they were.
C21_ClearSearchAndFilters ==
  [][ clearedFilters' =>
        /\ searchTerm' = ""
        /\ statusFilter' = "all"
        /\ healthFilter' = "all"
        /\ osFilter' = "all"
        /\ typeFilter' = "all"
        /\ groupFilter' = groupFilter
        /\ endpoints' = endpoints
        /\ stats' = stats
        /\ dataSource' = dataSource ]_vars

C21_Witness ==
  /\ clearedFilters
  /\ groupFilter = "Sales Team"
  /\ searchTerm = ""
  /\ osFilter = "all"
  /\ Len(endpoints) = 2
  /\ Len(filteredEndpoints) = 1

\* C28 as stated: with an empty search and the other filters at 'all', the
\* table lists as many endpoints as the Groups card shows next to the
\* selected group, and with the group filter at 'all' as many as it shows
\* next to All Groups.
C28_TableMatchesGroupsCard ==
  (/\ stats # <<>>
   /\ searchTerm = ""
   /\ statusFilter = "all" /\ healthFilter = "all"
   /\ osFilter = "all" /\ typeFilter = "all") =>
     /\ groupFilter = "all" => Len(filteredEndpoints) = stats[1].totalEndpoints
     /\ groupFilter \in DOMAIN stats[1].groupCounts =>
          Len(filteredEndpoints) = stats[1].groupCounts[groupFilter]

====
